---- MODULE Spec2Model ----
(***************************************************************************)
(* Model of email_automation.py: the candidate pipeline of main() (fetch,  *)
(* generate, evaluate, decide, send, persist) and the pure helper          *)
(* parse_grok_response.  Python strings are sequences of one-character     *)
(* strings, so that strip, split, the rating search and the email pattern  *)
(* are computed character by character as the interpreter computes them.   *)
(***************************************************************************)
EXTENDS Integers, Sequences, FiniteSets

VARIABLES
    pc,           \* position of main(): "start", the steps of one loop iteration, "done"
    min_rating,   \* st.slider value, copied into cohort_details["min_rating"]
    data,         \* data = worksheet.get_all_records(), every value mapped to str
    header,       \* header = worksheet.row_values(1) after add_missing_columns
    df,           \* the in-memory table: one dict (column -> cell) per data row
    idx,          \* the loop's row index (0-based, as df.iterrows yields it)
    response,     \* the local `response` (generated invitation body)
    generated,    \* per row: the invitation-generation call and what it returned
    evaluated,    \* per row: the evaluation call, its HTTP status and the dict returned
    mails,        \* per row: the send_email calls made (recipient, body, result)
    writes,       \* per row: the worksheet.update_cell calls that completed
    warnings,     \* per row: the st.warning messages (the name they carry)
    outcome,      \* the terminal messages emitted: st.success / st.error
    halted_at,    \* the row index at which an exception left the loop (-1: none)
    text,         \* input of parse_grok_response (the parser's own specification)
    parsed        \* its result, once computed

vars == << pc, min_rating, data, header, df, idx, response, generated, evaluated,
           mails, writes, warnings, outcome, halted_at, text, parsed >>

pipeVars == << pc, min_rating, data, header, df, idx, response, generated, evaluated,
               mails, writes, warnings, outcome, halted_at >>

-----------------------------------------------------------------------------
(* Bounds of the model *)

MaxRows == 2

MaxChunks == 4

-----------------------------------------------------------------------------
(* Characters and Python string primitives *)

Digits == {"0", "1", "2", "3", "4", "5", "6", "7", "8", "9"}

Lower == {"a", "b", "c", "d", "e", "f", "g", "h", "i", "j", "k", "l", "m",
          "n", "o", "p", "q", "r", "s", "t", "u", "v", "w", "x", "y", "z"}

Upper == {"A", "B", "C", "D", "E", "F", "G", "H", "I", "J", "K", "L", "M",
          "N", "O", "P", "Q", "R", "S", "T", "U", "V", "W", "X", "Y", "Z"}

\* the characters str.strip() removes (the ASCII ones that can be written here)
Whitespace == {" ", "\t", "\n", "\r", "\f"}

DigitVal(c) ==
    CASE c = "0" -> 0 [] c = "1" -> 1 [] c = "2" -> 2 [] c = "3" -> 3
      [] c = "4" -> 4 [] c = "5" -> 5 [] c = "6" -> 6 [] c = "7" -> 7
      [] c = "8" -> 8 [] c = "9" -> 9

\* int(s) for a string of decimal digits
RECURSIVE py_int(_)
py_int(s) ==
    IF s = << >> THEN 0
    ELSE 10 * py_int(SubSeq(s, 1, Len(s) - 1)) + DigitVal(s[Len(s)])

RECURSIVE py_lstrip(_)
py_lstrip(s) ==
    IF s # << >> /\ Head(s) \in Whitespace THEN py_lstrip(Tail(s)) ELSE s

RECURSIVE py_rstrip(_)
py_rstrip(s) ==
    IF s # << >> /\ s[Len(s)] \in Whitespace
    THEN py_rstrip(SubSeq(s, 1, Len(s) - 1))
    ELSE s

\* str.strip()
py_strip(s) == py_rstrip(py_lstrip(s))

StartsAt(s, i, pat) ==
    /\ i >= 1
    /\ i + Len(pat) - 1 <= Len(s)
    /\ SubSeq(s, i, i + Len(pat) - 1) = pat

\* str.find, 1-based; 0 when pat does not occur from position i on
RECURSIVE py_find(_, _, _)
py_find(s, pat, i) ==
    IF i + Len(pat) - 1 > Len(s) THEN 0
    ELSE IF StartsAt(s, i, pat) THEN i
    ELSE py_find(s, pat, i + 1)

\* `pat in s`
py_contains(s, pat) == py_find(s, pat, 1) # 0

\* s.split(pat, 1)[1], defined when pat occurs in s
py_split1_after(s, pat) ==
    SubSeq(s, py_find(s, pat, 1) + Len(pat), Len(s))

-----------------------------------------------------------------------------
(* parse_grok_response *)

LabelReason == <<"R", "e", "a", "s", "o", "n", ":">>

SlashTen == <<"/", "1", "0">>

\* a variant that knows one digit only: the pattern (\d)/10
RatingMatchLen_one_digit(s, i) ==
    IF /\ i <= Len(s)
       /\ s[i] \in Digits
       /\ StartsAt(s, i + 1, SlashTen)
    THEN 1
    ELSE 0

\* the pattern (\d{1,2})/10 tried at position i: the number of digits of the
\* match there (greedy: two digits before one), 0 when it does not match at i
RatingMatchLen(s, i) ==
    IF /\ i + 1 <= Len(s)
       /\ s[i] \in Digits
       /\ s[i + 1] \in Digits
       /\ StartsAt(s, i + 2, SlashTen)
    THEN 2
    ELSE IF /\ i <= Len(s)
            /\ s[i] \in Digits
            /\ StartsAt(s, i + 1, SlashTen)
    THEN 1
    ELSE 0

\* re.search: the leftmost position where the pattern matches; << >> is no match,
\* otherwise the text of group 1
RECURSIVE re_search_rating(_, _)
re_search_rating(s, i) ==
    IF i > Len(s) THEN << >>
    ELSE IF RatingMatchLen(s, i) # 0
    THEN SubSeq(s, i, i + RatingMatchLen(s, i) - 1)
    ELSE re_search_rating(s, i + 1)

parse_rating(response_text) ==
    LET group1 == re_search_rating(response_text, 1)
    IN  IF group1 # << >> THEN py_int(group1) ELSE 0

\* a variant that forgets .strip() after the split
parse_reason_unstripped(response_text) ==
    IF py_contains(response_text, LabelReason)
    THEN py_split1_after(response_text, LabelReason)
    ELSE response_text

parse_reason(response_text) ==
    IF py_contains(response_text, LabelReason)
    THEN py_strip(py_split1_after(response_text, LabelReason))
    ELSE response_text

parse_grok_response(response_text) ==
    [rating |-> parse_rating(response_text),
     reason |-> parse_reason(response_text)]

-----------------------------------------------------------------------------
(* The parser's specification: every text built from a few chunks is parsed *)

Chunks ==
    { LabelReason,
      <<"R", "e", "a", "s", "o", "n">>,
      <<" ">>,
      <<"\n">>,
      <<"7">>,
      <<"1">>,
      SlashTen,
      <<"/", "1">>,
      <<"x">> }

RECURSIVE Flatten(_)
Flatten(cs) == IF cs = << >> THEN << >> ELSE Head(cs) \o Flatten(Tail(cs))

Texts == { Flatten(cs) : cs \in UNION { [1..n -> Chunks] : n \in 0..MaxChunks } }

NotParsed == [done |-> FALSE, rating |-> 0, reason |-> << >>]

ParseInit ==
    /\ text \in Texts
    /\ parsed = NotParsed
    /\ pc = "parser"
    /\ min_rating = 1
    /\ data = << >>
    /\ header = << >>
    /\ df = << >>
    /\ idx = 0
    /\ response = << >>
    /\ generated = << >>
    /\ evaluated = << >>
    /\ mails = << >>
    /\ writes = << >>
    /\ warnings = << >>
    /\ outcome = << >>
    /\ halted_at = -1

Parse ==
    /\ pc = "parser"
    /\ ~parsed.done
    /\ parsed' = [done |-> TRUE,
                  rating |-> parse_grok_response(text).rating,
                  reason |-> parse_grok_response(text).reason]
    /\ UNCHANGED << text, pipeVars >>

ParseNext == Parse

ParseSpec == ParseInit /\ [][ParseNext]_vars

-----------------------------------------------------------------------------
(* Cells of the in-memory table and of the sheet.  A cell is a string, a    *)
(* number or pandas' NaN (a column that exists with no value in that row).  *)

Str(s) == [t |-> "str", n |-> 0, s |-> s]

Num(n) == [t |-> "int", n |-> n, s |-> << >>]

NaN == [t |-> "nan", n |-> 0, s |-> << >>]

SelectedAndEmailSent ==
    <<"S", "e", "l", "e", "c", "t", "e", "d", " ", "a", "n", "d", " ",
      "E", "m", "a", "i", "l", " ", "S", "e", "n", "t">>

NotSelected == <<"N", "o", "t", " ", "S", "e", "l", "e", "c", "t", "e", "d">>

ErrorInRetrievingData ==
    <<"E", "r", "r", "o", "r", " ", "i", "n", " ", "r", "e", "t", "r", "i",
      "e", "v", "i", "n", "g", " ", "d", "a", "t", "a">>

ErrorInGeneratingEmailContent ==
    <<"E", "r", "r", "o", "r", " ", "i", "n", " ", "g", "e", "n", "e", "r",
      "a", "t", "i", "n", "g", " ", "e", "m", "a", "i", "l", " ", "c", "o",
      "n", "t", "e", "n", "t", ".">>

Unknown == <<"U", "n", "k", "n", "o", "w", "n">>

-----------------------------------------------------------------------------
(* The collaborators' return values *)

\* a variant whose failure branch returns the (empty) completion text
evaluate_and_generate_email_no_fallback(status_code, content) ==
    py_strip(content)

\* evaluate_and_generate_email, given the HTTP status and the completion text
evaluate_and_generate_email(status_code, content) ==
    IF status_code = 200 THEN py_strip(content)
    ELSE ErrorInGeneratingEmailContent

\* a variant that parses the body whatever the status
evaluate_candidate_with_grok_unchecked(status_code, content) ==
    parse_grok_response(content)

\* evaluate_candidate_with_grok, given the HTTP status and the completion text
evaluate_candidate_with_grok(status_code, content) ==
    IF status_code = 200 THEN parse_grok_response(content)
    ELSE [rating |-> 0, reason |-> ErrorInRetrievingData]

\* re.match(email_regex, email) for
\*   ^[a-zA-Z0-9._%+-]+@[a-zAZ0-9.-]+\.[a-zA-Z]{2,}$
\* the domain class is written a-zAZ0-9.- in the source: of the capitals only
\* A and Z belong to it.  $ also matches before a final newline.
LocalChars == Lower \cup Upper \cup Digits \cup {".", "_", "%", "+", "-"}

DomainChars == Lower \cup {"A", "Z"} \cup Digits \cup {".", "-"}

TldChars == Lower \cup Upper

AllIn(s, a, b, set) == \A k \in a..b : s[k] \in set

email_regex_match(email) ==
    \E e \in {Len(email), Len(email) - 1} :
        /\ e >= 0
        /\ e = Len(email) \/ email[Len(email)] = "\n"
        /\ \E at \in 2..e, dot \in 3..e :
              /\ email[at] = "@"
              /\ email[dot] = "."
              /\ at + 1 < dot
              /\ dot + 2 <= e
              /\ AllIn(email, 1, at - 1, LocalChars)
              /\ AllIn(email, at + 1, dot - 1, DomainChars)
              /\ AllIn(email, dot + 1, e, TldChars)

\* add_missing_columns: the header row once the missing columns are appended
RECURSIVE append_missing(_, _)
append_missing(h, cols) ==
    IF cols = << >> THEN h
    ELSE IF \E k \in 1..Len(h) : h[k] = Head(cols)
    THEN append_missing(h, Tail(cols))
    ELSE append_missing(Append(h, Head(cols)), Tail(cols))

add_missing_columns(h) ==
    append_missing(h, <<"Status", "Evaluation Reason", "Rating">>)

\* header.index(col), 0-based as in Python; col is in h
header_index(h, col) ==
    (CHOOSE k \in 1..Len(h) :
        h[k] = col /\ \A j \in 1..(k - 1) : h[j] # col) - 1

\* a variant that assigns the whole column: df[col] = val
df_set_column(d, i, col, val) ==
    [r \in DOMAIN d |->
        [c \in (DOMAIN d[r]) \cup {col} |->
            IF c = col THEN val ELSE d[r][c]]]

\* df.at[i, col] = val: a missing column is created, NaN in the other rows
df_at_set(d, i, col, val) ==
    [r \in DOMAIN d |->
        [c \in (DOMAIN d[r]) \cup {col} |->
            IF r = i + 1 /\ c = col THEN val
            ELSE IF c \in DOMAIN d[r] THEN d[r][c]
            ELSE NaN]]

\* candidate.get(col, default)
candidate_get(candidate, col, default) ==
    IF col \in DOMAIN candidate THEN candidate[col].s ELSE default

-----------------------------------------------------------------------------
(* Inputs: the sheet, the slider, the services' answers *)

\* st.slider(..., 1, 10, 5) allows 1..10; two values around the rating 7 the
\* evaluation texts carry: 7 >= 7 is the boundary, 7 < 8 the rejection
MinRatings == {7, 8}

Headers ==
    { <<"Applicant Name", "Emails">>,
      <<"Status", "Applicant Name", "Emails">>,
      <<"Emails">> }

CandidateName == <<"A", "s", "h", "a">>

EmailCells ==
    { <<" ", "a", "@", "b", ".", "c", "o", " ">>,
      << >>,
      <<"a", "@", "B", ".", "c", "o">> }

\* what a sheet that has a Status column holds there: the value an earlier
\* run persisted (a sheet without the column gives rows without a Status)
StatusCells == { SelectedAndEmailSent }

ColumnsOf(h) == { h[k] : k \in 1..Len(h) }

\* one record of get_all_records() under header h, every value mapped to str
RowsOf(h) ==
    { [c \in ColumnsOf(h) |->
          IF c = "Applicant Name" THEN Str(CandidateName)
          ELSE IF c = "Emails" THEN Str(e)
          ELSE Str(s)] : e \in EmailCells, s \in StatusCells }

TextStrongFit ==
    <<"7", "/", "1", "0", " ", "R", "e", "a", "s", "o", "n", ":", " ",
      "s", "t", "r", "o", "n", "g", " ", "f", "i", "t">>

TextNoMarkers ==
    <<"N", "o", "t", " ", "s", "u", "r", "e", ",", " ", "m", "a", "y", "b",
      "e", " ", "l", "a", "t", "e", "r">>

EvalResponses ==
    { [status_code |-> 200, content |-> TextStrongFit],
      [status_code |-> 200, content |-> TextNoMarkers],
      [status_code |-> 500, content |-> << >>] }

GenResponses ==
    { [status_code |-> 200,
       content |-> <<" ", "W", "e", "l", "c", "o", "m", "e", "\n">>],
      [status_code |-> 500, content |-> << >>] }

NoCall == [called |-> FALSE, status_code |-> 0, result |-> << >>]

NoEvaluation ==
    [called |-> FALSE, status_code |-> 0, rating |-> 0, reason |-> << >>]

Rows == 0..(Len(df) - 1)

-----------------------------------------------------------------------------
(* main(): the steps of a run *)

Init ==
    /\ pc = "start"
    /\ min_rating \in MinRatings
    /\ data = << >>
    /\ header = << >>
    /\ df = << >>
    /\ idx = 0
    /\ response = << >>
    /\ generated = << >>
    /\ evaluated = << >>
    /\ mails = << >>
    /\ writes = << >>
    /\ warnings = << >>
    /\ outcome = << >>
    /\ halted_at = -1
    /\ text = << >>
    /\ parsed = NotParsed

\* a variant that reports the error and falls through to st.success
Raise_then_success ==
    /\ outcome' = Append(outcome, "error")
    /\ halted_at' = IF pc = "start" THEN -1 ELSE idx
    /\ pc' = "finish"

\* except Exception as e: st.error(...)
Raise ==
    /\ outcome' = Append(outcome, "error")
    /\ halted_at' = IF pc = "start" THEN -1 ELSE idx
    /\ pc' = "done"

\* the end of one loop iteration
NextRow ==
    /\ idx' = idx + 1
    /\ pc' = IF idx + 1 < Len(df) THEN "generate" ELSE "finish"

\* lines 181-201: open the sheet, read the records, add the missing columns
Fetch ==
    /\ pc = "start"
    /\ \/ /\ Raise
          /\ UNCHANGED << data, header, df, idx, generated, evaluated, mails,
                          writes, warnings >>
       \/ \E h \in Headers, n \in 0..MaxRows :
          \E rows \in [1..n -> RowsOf(h)] :
             /\ data' = rows
             /\ df' = rows
             /\ header' = add_missing_columns(h)
             /\ idx' = 0
             /\ generated' = [r \in 0..(n - 1) |-> NoCall]
             /\ evaluated' = [r \in 0..(n - 1) |-> NoEvaluation]
             /\ mails' = [r \in 0..(n - 1) |-> << >>]
             /\ writes' = [r \in 0..(n - 1) |-> << >>]
             /\ warnings' = [r \in 0..(n - 1) |-> << >>]
             /\ pc' = IF n = 0 THEN "finish" ELSE "generate"
             /\ UNCHANGED << outcome, halted_at >>
    /\ UNCHANGED << min_rating, response, text, parsed >>

\* line 206: response = evaluate_and_generate_email(...)
Generate ==
    /\ pc = "generate"
    /\ \/ \E r \in GenResponses :
             /\ response' = evaluate_and_generate_email(r.status_code, r.content)
             /\ generated' = [generated EXCEPT ![idx] =
                    [called |-> TRUE, status_code |-> r.status_code,
                     result |-> response']]
             /\ pc' = "evaluate"
             /\ UNCHANGED << outcome, halted_at >>
       \/ /\ generated' = [generated EXCEPT ![idx].called = TRUE]
          /\ Raise
          /\ UNCHANGED response
    /\ UNCHANGED << min_rating, data, header, df, idx, evaluated, mails, writes,
                    warnings, text, parsed >>

\* lines 207-211: evaluation = evaluate_candidate_with_grok(..., candidate['Applicant Name'])
\* and the two df.at assignments
Evaluate ==
    /\ pc = "evaluate"
    /\ \/ /\ "Applicant Name" \notin DOMAIN df[idx + 1]
          /\ Raise
          /\ UNCHANGED << df, evaluated >>
       \/ /\ "Applicant Name" \in DOMAIN df[idx + 1]
          /\ evaluated' = [evaluated EXCEPT ![idx].called = TRUE]
          /\ Raise
          /\ UNCHANGED df
       \/ /\ "Applicant Name" \in DOMAIN df[idx + 1]
          /\ \E r \in EvalResponses :
             LET evaluation == evaluate_candidate_with_grok(r.status_code, r.content)
             IN  /\ evaluated' = [evaluated EXCEPT ![idx] =
                        [called |-> TRUE, status_code |-> r.status_code,
                         rating |-> evaluation.rating,
                         reason |-> evaluation.reason]]
                 /\ df' = df_at_set(
                             df_at_set(df, idx, "Rating", Num(evaluation.rating)),
                             idx, "Evaluation Reason", Str(evaluation.reason))
          /\ pc' = "decide"
          /\ UNCHANGED << outcome, halted_at >>
    /\ UNCHANGED << min_rating, data, header, idx, response, generated, mails,
                    writes, warnings, text, parsed >>

\* line 216
candidate_email == py_strip(candidate_get(df[idx + 1], "Emails", << >>))

\* a variant that only asks for a non-empty email
email_valid_nonempty == candidate_email # << >>

\* line 217: re.match(email_regex, email)
email_valid == email_regex_match(candidate_email)

\* variants of the comparison: strict, and one too low
rating_accepted_strict(rating) == rating > min_rating

rating_accepted_one_below(rating) == rating + 1 >= min_rating

\* line 218
rating_accepted(rating) == rating >= min_rating

\* lines 214-219 and 228-231: the email check and the decision
Decide ==
    /\ pc = "decide"
    /\ IF email_valid
       THEN IF rating_accepted(evaluated[idx].rating)
            THEN /\ df' = df_at_set(df, idx, "Status", Str(SelectedAndEmailSent))
                 /\ pc' = "send"
                 /\ UNCHANGED << idx, warnings >>
            ELSE /\ df' = df_at_set(df, idx, "Status", Str(NotSelected))
                 /\ NextRow
                 /\ UNCHANGED warnings
       ELSE /\ warnings' = [warnings EXCEPT ![idx] =
                   Append(@, candidate_get(df[idx + 1], "Applicant Name", Unknown))]
            /\ NextRow
            /\ UNCHANGED df
    /\ UNCHANGED << min_rating, data, header, response, generated, evaluated, mails,
                    writes, outcome, halted_at, text, parsed >>

\* line 221: st.write(send_email(email, email_subject, email_content)); send_email
\* returns a message whether or not the SMTP exchange succeeded
Send ==
    /\ pc = "send"
    /\ \E delivered \in BOOLEAN :
          mails' = [mails EXCEPT ![idx] =
              Append(@, [to |-> candidate_email, body |-> response,
                         delivered |-> delivered])]
    /\ pc' = "write_status"
    /\ UNCHANGED << min_rating, data, header, df, idx, response, generated, evaluated,
                    writes, warnings, outcome, halted_at, text, parsed >>

\* worksheet.update_cell(row_number, header.index(col) + 1, df.at[idx, col])
update_cell(col) ==
    writes' = [writes EXCEPT ![idx] =
        Append(@, [row |-> idx + 2,
                   col |-> header_index(header, col) + 1,
                   value |-> df[idx + 1][col]])]

\* line 225
WriteStatus ==
    /\ pc = "write_status"
    /\ \/ /\ update_cell("Status")
          /\ pc' = "write_reason"
          /\ UNCHANGED << outcome, halted_at >>
       \/ /\ Raise
          /\ UNCHANGED writes
    /\ UNCHANGED << min_rating, data, header, df, idx, response, generated, evaluated,
                    mails, warnings, text, parsed >>

\* line 226
WriteReason ==
    /\ pc = "write_reason"
    /\ \/ /\ update_cell("Evaluation Reason")
          /\ pc' = "write_rating"
          /\ UNCHANGED << outcome, halted_at >>
       \/ /\ Raise
          /\ UNCHANGED writes
    /\ UNCHANGED << min_rating, data, header, df, idx, response, generated, evaluated,
                    mails, warnings, text, parsed >>

\* line 227, and the end of the iteration
WriteRating ==
    /\ pc = "write_rating"
    /\ \/ /\ update_cell("Rating")
          /\ NextRow
          /\ UNCHANGED << outcome, halted_at >>
       \/ /\ Raise
          /\ UNCHANGED << writes, idx >>
    /\ UNCHANGED << min_rating, data, header, df, response, generated, evaluated,
                    mails, warnings, text, parsed >>

\* line 233: st.success("Process completed!")
Finish ==
    /\ pc = "finish"
    /\ outcome' = Append(outcome, "success")
    /\ pc' = "done"
    /\ UNCHANGED << min_rating, data, header, df, idx, response, generated, evaluated,
                    mails, writes, warnings, halted_at, text, parsed >>

Next ==
    \/ Fetch
    \/ Generate
    \/ Evaluate
    \/ Decide
    \/ Send
    \/ WriteStatus
    \/ WriteReason
    \/ WriteRating
    \/ Finish

Spec == Init /\ [][Next]_vars

-----------------------------------------------------------------------------
(* Properties of parse_grok_response, checked under ParseSpec *)

\* the positions where a 1- or 2-digit number followed by /10 occurs in s
RatingOccurrences(s) ==
    { p \in (1..Len(s)) \X {1, 2} :
        /\ p[1] + p[2] + 2 <= Len(s)
        /\ \A k \in p[1]..(p[1] + p[2] - 1) : s[k] \in Digits
        /\ s[p[1] + p[2]] = "/"
        /\ s[p[1] + p[2] + 1] = "1"
        /\ s[p[1] + p[2] + 2] = "0" }

\* the occurrence that starts first (two occurrences never start together)
FirstRatingOccurrence(s) ==
    CHOOSE p \in RatingOccurrences(s) :
        \A q \in RatingOccurrences(s) : p[1] <= q[1]

NumberAt(s, p) ==
    IF p[2] = 1 THEN DigitVal(s[p[1]])
    ELSE 10 * DigitVal(s[p[1]]) + DigitVal(s[p[1] + 1])

\* C5: a text that contains N/10, N of one or two digits, parses to rating N of
\* the first such occurrence; a text without that pattern parses to rating 0.
C5_RatingIsFirstNOverTen ==
    parsed.done =>
        IF RatingOccurrences(text) # {}
        THEN parsed.rating = NumberAt(text, FirstRatingOccurrence(text))
        ELSE parsed.rating = 0

\* a text with two occurrences carrying different numbers, the first of two digits
C5_Witness ==
    /\ parsed.done
    /\ \E p, q \in RatingOccurrences(text) :
          /\ p[1] + 1 < q[1]
          /\ p[2] = 2
          /\ NumberAt(text, p) # NumberAt(text, q)
          /\ parsed.rating = NumberAt(text, p)

LabelPositions(s) ==
    { i \in 1..Len(s) :
        /\ i + 6 <= Len(s)
        /\ \A k \in 1..7 : s[i + k - 1] = LabelReason[k] }

FirstLabel(s) == CHOOSE i \in LabelPositions(s) : \A j \in LabelPositions(s) : i <= j

AfterFirstLabel(s) == SubSeq(s, FirstLabel(s) + 7, Len(s))

\* r is s without its leading and trailing whitespace
IsTrimmed(r, s) ==
    \E a, b \in 0..Len(s) :
        /\ a + b <= Len(s)
        /\ \A k \in 1..a : s[k] \in Whitespace
        /\ \A k \in (Len(s) - b + 1)..Len(s) : s[k] \in Whitespace
        /\ r = SubSeq(s, a + 1, Len(s) - b)
        /\ r = << >> \/ (r[1] \notin Whitespace /\ r[Len(r)] \notin Whitespace)

\* C6 as stated: with the label, the reason is what follows the first label,
\* trimmed; without it, the reason is the whole text, trimmed.
C6_ReasonTrimmedInBothCases ==
    parsed.done =>
        IF LabelPositions(text) # {}
        THEN IsTrimmed(parsed.reason, AfterFirstLabel(text))
        ELSE IsTrimmed(parsed.reason, text)

\* C6 as the code has it: with the label, the reason is what follows the first
\* label, trimmed; without it, the reason is the whole text, unchanged.
C6_ReasonAfterLabelOrWholeText ==
    parsed.done =>
        IF LabelPositions(text) # {}
        THEN IsTrimmed(parsed.reason, AfterFirstLabel(text))
        ELSE parsed.reason = text

\* a text without the label that begins and ends with whitespace, returned as is
C6_Witness ==
    /\ parsed.done
    /\ LabelPositions(text) = {}
    /\ Len(text) >= 3
    /\ text[1] \in Whitespace
    /\ text[Len(text)] \in Whitespace
    /\ \E k \in 1..Len(text) : text[k] \notin Whitespace
    /\ parsed.reason = text

\* a text with two labels and whitespace around what follows the first
C6_LabelCaseReached ==
    /\ parsed.done
    /\ Cardinality(LabelPositions(text)) = 2
    /\ Len(parsed.reason) >= 7
    /\ Len(parsed.reason) < Len(AfterFirstLabel(text))

-----------------------------------------------------------------------------
(* Properties of the pipeline, checked under Spec *)

\* row r has been through a whole loop iteration
Completed(r) == r \in Rows /\ r < idx

\* the row's email field, trimmed, and the format check, computed from the
\* fetched record
RowEmail(r) ==
    IF "Emails" \in DOMAIN data[r + 1]
    THEN py_strip(data[r + 1]["Emails"].s)
    ELSE << >>

RowEmailPasses(r) == email_regex_match(RowEmail(r))

\* the Status cell of the in-memory row, NaN when the row has none
StatusOf(r) ==
    IF "Status" \in DOMAIN df[r + 1] THEN df[r + 1]["Status"] ELSE NaN

\* the Status cell the row was fetched with
FetchedStatusOf(r) ==
    IF "Status" \in DOMAIN data[r + 1] THEN data[r + 1]["Status"] ELSE NaN

\* the names of the columns row r's writes went to, in order
WrittenColumns(r) == [k \in 1..Len(writes[r]) |-> header[writes[r][k].col]]

\* C1: a row whose rating is >= the minimum and whose trimmed email passes the
\* check gets Status "Selected and Email Sent", exactly one send attempt, and
\* then exactly three writes (Status, Evaluation Reason, Rating) at sheet row
\* index + 2, whether the send succeeded or failed.
C1_SelectedRowSentAndPersisted ==
    \A r \in Rows :
        /\ writes[r] # << >> => Len(mails[r]) = 1
        /\ (Completed(r) /\ RowEmailPasses(r) /\ evaluated[r].rating >= min_rating) =>
              /\ StatusOf(r) = Str(SelectedAndEmailSent)
              /\ Len(mails[r]) = 1
              /\ mails[r][1].to = RowEmail(r)
              /\ WrittenColumns(r) = <<"Status", "Evaluation Reason", "Rating">>
              /\ \A k \in 1..3 : writes[r][k].row = r + 2
              /\ writes[r][1].value = Str(SelectedAndEmailSent)
              /\ writes[r][2].value = Str(evaluated[r].reason)
              /\ writes[r][3].value = Num(evaluated[r].rating)

\* a selected row at the boundary rating whose send failed, persisted all the same
C1_Witness ==
    \E r \in Rows :
        /\ Completed(r)
        /\ RowEmailPasses(r)
        /\ evaluated[r].rating = min_rating
        /\ Len(mails[r]) = 1
        /\ ~mails[r][1].delivered
        /\ Len(writes[r]) = 3

\* C2 as stated: a row whose rating is below the minimum gets Status "Not
\* Selected" and no send or write, whatever its email field holds.
C2_BelowMinimumIsNotSelected ==
    \A r \in Rows :
        (Completed(r) /\ evaluated[r].rating < min_rating) =>
            /\ StatusOf(r) = Str(NotSelected)
            /\ mails[r] = << >>
            /\ writes[r] = << >>

\* C2 as the code has it: a row whose rating is below the minimum gets no send
\* and no write; its Status becomes "Not Selected" when its trimmed email passes
\* the check, and stays as fetched when it does not.
C2_BelowMinimumNoSendNoWrite ==
    \A r \in Rows :
        (Completed(r) /\ evaluated[r].rating < min_rating) =>
            /\ mails[r] = << >>
            /\ writes[r] = << >>
            /\ RowEmailPasses(r) => StatusOf(r) = Str(NotSelected)
            /\ ~RowEmailPasses(r) => StatusOf(r) = FetchedStatusOf(r)

\* a rejected row with a valid email, fetched with a Status of an earlier run
C2_Witness ==
    \E r \in Rows :
        /\ Completed(r)
        /\ evaluated[r].status_code = 200
        /\ evaluated[r].rating + 1 = min_rating
        /\ RowEmailPasses(r)
        /\ FetchedStatusOf(r) = Str(SelectedAndEmailSent)
        /\ StatusOf(r) = Str(NotSelected)

\* C3: a row whose trimmed email is empty or fails the check gets no send and
\* no write whatever its rating, and one warning; the loop goes on to the next
\* row, and a run in which nothing raised ends with the success message.
C3_InvalidEmailSkippedWithWarning ==
    /\ \A r \in Rows :
          ~RowEmailPasses(r) =>
              /\ mails[r] = << >>
              /\ writes[r] = << >>
              /\ Len(warnings[r]) <= 1
              /\ Completed(r) => warnings[r] = << CandidateName >>
              /\ (halted_at = r) => evaluated[r].status_code = 0
    /\ \A r \in Rows : RowEmailPasses(r) => warnings[r] = << >>
    /\ (pc = "done" /\ outcome # << "error" >>) =>
          /\ outcome = << "success" >>
          /\ idx = Len(df)

\* a finished run: a row with a sufficient rating and an invalid email was
\* skipped, and the row after it was sent and persisted
C3_Witness ==
    /\ pc = "done"
    /\ outcome = << "success" >>
    /\ \E r \in Rows :
          /\ r + 1 \in Rows
          /\ RowEmail(r) # << >>
          /\ ~RowEmailPasses(r)
          /\ evaluated[r].rating >= min_rating
          /\ warnings[r] = << CandidateName >>
          /\ Len(mails[r + 1]) = 1
          /\ Len(writes[r + 1]) = 3

SkippedInvalidEmail ==
    <<"S", "k", "i", "p", "p", "e", "d", "-", "I", "n", "v", "a", "l", "i",
      "d", "-", "E", "m", "a", "i", "l">>

\* C4 as stated: every processed row ends with one of the three Status values
\* in its Status field, none with Status unset.
C4_EveryRowHasOneOfThreeStatuses ==
    \A r \in Rows :
        Completed(r) =>
            StatusOf(r) \in { Str(SelectedAndEmailSent), Str(NotSelected),
                              Str(SkippedInvalidEmail) }

\* C4 as the code has it: a processed row whose trimmed email passes the check
\* ends with exactly one of the two values "Selected and Email Sent" (rating >=
\* minimum) and "Not Selected" (rating < minimum); a processed row whose email
\* does not pass keeps the Status it was fetched with, unset on a fresh sheet.
C4_StatusOnlyForValidEmail ==
    \A r \in Rows :
        Completed(r) =>
            /\ RowEmailPasses(r) =>
                  StatusOf(r) = IF evaluated[r].rating >= min_rating
                                THEN Str(SelectedAndEmailSent)
                                ELSE Str(NotSelected)
            /\ ~RowEmailPasses(r) =>
                  /\ StatusOf(r) = FetchedStatusOf(r)
                  /\ StatusOf(r) # Str(SkippedInvalidEmail)

\* a finished run over a sheet without a Status column: one row was selected,
\* the other, with an invalid email, is left without a Status
C4_Witness ==
    /\ pc = "done"
    /\ \E r, q \in Rows :
          /\ Completed(r) /\ Completed(q)
          /\ FetchedStatusOf(r) = NaN
          /\ ~RowEmailPasses(r)
          /\ StatusOf(r) = NaN
          /\ StatusOf(q) = Str(SelectedAndEmailSent)

\* every generation call that was made returned (no transport exception)
GenerationReturned == \A r \in Rows : generated[r].called => generated[r].status_code # 0

\* C7: on a sheet without the "Applicant Name" column each candidate gets a
\* warning naming it "Unknown", nothing is sent, and the run goes through the
\* rows and ends with the success message.
C7_MissingNameIsOnlyAWarning ==
    ( /\ pc = "done"
      /\ Len(df) > 0
      /\ "Applicant Name" \notin DOMAIN data[1]
      /\ GenerationReturned ) =>
        /\ outcome = << "success" >>
        /\ \A r \in Rows : mails[r] = << >> /\ warnings[r] = << Unknown >>

\* what the code does there: the lookup candidate['Applicant Name'] raises in
\* the first iteration, the run ends with the error message and no warning
C7_MissingNameHaltsRun ==
    ( /\ pc = "done"
      /\ Len(df) > 0
      /\ "Applicant Name" \notin DOMAIN data[1] ) =>
        /\ outcome = << "error" >>
        /\ halted_at = 0
        /\ ~evaluated[0].called
        /\ \A r \in Rows : warnings[r] = << >> /\ mails[r] = << >>

C7_MissingNameRunReached ==
    /\ pc = "done"
    /\ Len(df) = 2
    /\ "Applicant Name" \notin DOMAIN data[1]
    /\ generated[0].status_code = 200


IsPrefix(a, b) == Len(a) <= Len(b) /\ SubSeq(b, 1, Len(a)) = a

\* nothing was done for row r: no model call, no send, no write, no warning
Untouched(r) ==
    /\ ~generated[r].called
    /\ ~evaluated[r].called
    /\ mails[r] = << >>
    /\ writes[r] = << >>
    /\ warnings[r] = << >>

C8_TerminalState ==
    /\ outcome \in { << >>, << "success" >>, << "error" >> }
    /\ (pc = "done") <=> (Len(outcome) = 1)
    /\ pc # "done" => ENABLED Next
    /\ outcome = << "success" >> => (halted_at = -1 /\ idx = Len(df))
    /\ halted_at >= 0 =>
          /\ outcome = << "error" >>
          /\ idx = halted_at
          /\ \A r \in Rows : r > halted_at => Untouched(r)

C8_Step ==
    /\ pc # "done"
    /\ pc # "start" =>
          \A r \in Rows :
              /\ IsPrefix(mails[r], mails'[r])
              /\ IsPrefix(writes[r], writes'[r])
    /\ outcome' = << "error" >> =>
          /\ mails' = mails
          /\ writes' = writes
          /\ df' = df

\* C8: a run emits at most one terminal message, and exactly one once it has
\* ended: the success message or one error message, never both.  When a step of
\* row k raises, the run ends there with the error message: no model call, send
\* or write is made for a later row, the success message is not emitted, and
\* the sends and writes made so far (a part of row k's three writes included)
\* stay as they are.
C8_OneOutcomeAndHaltAtFault ==
    [] C8_TerminalState /\ [][C8_Step]_vars

\* the second write of the first of two rows raised: the mail and the first
\* write of that row stand, the second row is untouched
C8_Witness ==
    /\ Len(df) = 2
    /\ halted_at = 0
    /\ outcome = << "error" >>
    /\ Len(mails[0]) = 1
    /\ Len(writes[0]) = 1
    /\ Untouched(1)

\* the loop is past the evaluation of row r
PastEvaluation(r) ==
    \/ Completed(r)
    \/ r = idx /\ pc \in {"decide", "send", "write_status", "write_reason", "write_rating"}

\* C9: once a row is evaluated, and before the email check and the decision,
\* its in-memory Rating and Evaluation Reason hold the evaluation's result,
\* whatever the row's outcome; after a non-success response they are 0 and
\* "Error in retrieving data".
C9_RatingAndReasonSetFromEvaluation ==
    \A r \in Rows :
        PastEvaluation(r) =>
            /\ evaluated[r].status_code # 0
            /\ "Rating" \in DOMAIN df[r + 1]
            /\ "Evaluation Reason" \in DOMAIN df[r + 1]
            /\ df[r + 1]["Rating"] = Num(evaluated[r].rating)
            /\ df[r + 1]["Evaluation Reason"] = Str(evaluated[r].reason)
            /\ evaluated[r].status_code # 200 =>
                  /\ df[r + 1]["Rating"] = Num(0)
                  /\ df[r + 1]["Evaluation Reason"] = Str(ErrorInRetrievingData)

\* a finished run with a failed evaluation on a row with an invalid email and
\* a successful one (rating 7, reason "strong fit") on a selected row
C9_Witness ==
    /\ pc = "done"
    /\ \E r, q \in Rows :
          /\ Completed(r) /\ Completed(q)
          /\ ~RowEmailPasses(r)
          /\ evaluated[r].status_code = 500
          /\ df[r + 1]["Evaluation Reason"] = Str(ErrorInRetrievingData)
          /\ df[q + 1]["Rating"] = Num(7)
          /\ df[q + 1]["Evaluation Reason"] =
                Str(<<"s", "t", "r", "o", "n", "g", " ", "f", "i", "t">>)
          /\ StatusOf(q) = Str(SelectedAndEmailSent)

\* C10: the body of every mail sent is the string the generation call of that
\* row returned; whether a row is sent depends on its rating and email only, so
\* a row with a sufficient rating and a valid email whose generation failed is
\* sent the fallback body "Error in generating email content." and persisted as
\* "Selected and Email Sent".
C10_BodyIsGeneratedText ==
    \A r \in Rows :
        /\ \A k \in 1..Len(mails[r]) :
              /\ generated[r].status_code # 0
              /\ mails[r][k].body = generated[r].result
        /\ Completed(r) =>
              (Len(mails[r]) = 1 <=>
                  (RowEmailPasses(r) /\ evaluated[r].rating >= min_rating))
        /\ ( /\ Completed(r)
             /\ generated[r].status_code # 200
             /\ RowEmailPasses(r)
             /\ evaluated[r].rating >= min_rating ) =>
              /\ Len(mails[r]) = 1
              /\ mails[r][1].body = ErrorInGeneratingEmailContent
              /\ Len(writes[r]) = 3
              /\ header[writes[r][1].col] = "Status"
              /\ writes[r][1].value = Str(SelectedAndEmailSent)

\* a finished run: one row was sent the fallback body, another the generated
\* text without its surrounding whitespace
C10_Witness ==
    /\ pc = "done"
    /\ \E r, q \in Rows :
          /\ generated[r].status_code = 500
          /\ Len(mails[r]) = 1
          /\ mails[r][1].body = ErrorInGeneratingEmailContent
          /\ Len(writes[r]) = 3
          /\ generated[q].status_code = 200
          /\ Len(mails[q]) = 1
          /\ mails[q][1].body = <<"W", "e", "l", "c", "o", "m", "e">>

====
